---- MODULE Spec2Model ----
(***************************************************************************)
(* Model of the webhook review service, src/webhook_server/app.py:         *)
(* signature verification, event filtering, the ephemeral workspace, the   *)
(* analysis run and the GitHub status / comment reconciliation.            *)
(*                                                                         *)
(* Strings whose structure the code inspects (the signature header, file   *)
(* names) are sequences of one-character strings.                          *)
(***************************************************************************)
EXTENDS Integers, Sequences, FiniteSets, TLC

\* ------------------------------------------------------------------------
\* Bounds of the model
\* ------------------------------------------------------------------------
MaxHeaderLen == 4
DigestLen == 2
MaxPayloadLen == 1
MaxSecretLen == 1
MaxInitialMarked == 2
MaxRuns == 2
MaxFiles == 3

\* ------------------------------------------------------------------------
\* Small helpers
\* ------------------------------------------------------------------------
SeqsUpTo(S, n) == UNION {[1..k -> S] : k \in 0..n}

RECURSIVE Pow2(_)
Pow2(n) == IF n = 0 THEN 1 ELSE 2 * Pow2(n - 1)

\* ------------------------------------------------------------------------
\* Configuration (app.py:27-33)
\* ------------------------------------------------------------------------
BOT_MARKER == "<!-- code-review-bot -->"

\* ------------------------------------------------------------------------
\* verify_signature (app.py:45-59)
\* ------------------------------------------------------------------------
\* Characters a signature header is made of: an algorithm letter, the
\* separator, the digits of a digest, and a non-ASCII character.
HeaderChars == {"s", "=", "0", "1", "~"}
NonAscii == {"~"}
DigestChars == {"0", "1"}
PayloadBytes == {0, 1}
SecretChars == {"k", "j"}

\* str.split("="): the pieces between the separators, always at least one.
RECURSIVE Split(_, _)
Split(s, sep) ==
    IF \A i \in 1..Len(s) : s[i] # sep
    THEN <<s>>
    ELSE LET i == CHOOSE j \in 1..Len(s) :
                      s[j] = sep /\ \A k \in 1..(j - 1) : s[k] # sep
         IN <<SubSeq(s, 1, i - 1)>> \o Split(SubSeq(s, i + 1, Len(s)), sep)

\* Numeric reading of a key and of a message, used by the keyed hash.
RECURSIVE KeyVal(_)
KeyVal(k) ==
    IF k = <<>> THEN 0
    ELSE (IF Head(k) = "k" THEN 1 ELSE 2) + 3 * KeyVal(Tail(k))

RECURSIVE MsgVal(_)
MsgVal(m) == IF m = <<>> THEN 0 ELSE (Head(m) + 1) + 3 * MsgVal(Tail(m))

RECURSIVE ToDigits(_, _)
ToDigits(v, n) ==
    IF n = 0 THEN <<>>
    ELSE ToDigits(v \div 2, n - 1) \o <<IF v % 2 = 0 THEN "0" ELSE "1">>

\* hmac.new(key, msg, sha256).hexdigest(): a keyed hash of the message,
\* rendered as a fixed-length digit string.
HmacHex(key, msg) ==
    ToDigits((5 * KeyVal(key) + 3 * MsgVal(msg) + 1) % Pow2(DigestLen), DigestLen)

\* Variant: only the first character of the two digests is compared.
CompareFirstChar(a, b) ==
    IF \E i \in 1..Len(b) : b[i] \in NonAscii THEN "TypeError"
    ELSE IF Len(a) = Len(b) /\ a # <<>> /\ a[1] = b[1] THEN "True" ELSE "False"

\* hmac.compare_digest on two str: TypeError when one holds a non-ASCII
\* character (the computed digest never does), otherwise equality.

compare_digest(a, b) ==
    IF \E i \in 1..Len(b) : b[i] \in NonAscii THEN "TypeError"
    ELSE IF a = b THEN "True" ELSE "False"

\* Variant: the missing header is looked at before the secret.
VerifySignatureHeaderFirst(sec, payload, signature_header) ==
    IF signature_header = <<>> THEN "False"
    ELSE IF sec = <<>> THEN "True"
    ELSE LET parts == Split(signature_header, "=")
         IN IF Len(parts) # 2 THEN "ValueError"
            ELSE compare_digest(HmacHex(sec, payload), parts[2])

\* The outcome of verify_signature: "True", "False", or the exception that
\* leaves it.
verify_signature(sec, payload, signature_header) ==
    IF sec = <<>> THEN "True"
    ELSE IF signature_header = <<>> THEN "False"
    ELSE LET parts == Split(signature_header, "=")
         IN IF Len(parts) # 2 THEN "ValueError"
            ELSE compare_digest(HmacHex(sec, payload), parts[2])

\* ------------------------------------------------------------------------
\* Analysis (CodeReviewer, app.py:114-219)
\* ------------------------------------------------------------------------
A_PY == <<"a", ".", "p", "y">>
B_TXT == <<"b", ".", "t", "x", "t">>
C_PY == <<"c", ".", "p", "y">>
A_PYC == <<"a", ".", "p", "y", "c">>
PY == <<"p", "y">>

\* The paths a diff may list.
FileNames == {A_PY, B_TXT, C_PY, A_PYC, PY}

\* git diff --name-only lists each changed path once.
DiffLists ==
    {d \in SeqsUpTo(FileNames, MaxFiles) :
        \A i, j \in DOMAIN d : i # j => d[i] # d[j]}

\* str.endswith
EndsWith(s, suffix) ==
    /\ Len(s) >= Len(suffix)
    /\ SubSeq(s, Len(s) - Len(suffix) + 1, Len(s)) = suffix

PySuffix == <<".", "p", "y">>

\* Variant: the lines that end in "y".
ChangedFilesEndingInY(lines) ==
    SelectSeq(lines, LAMBDA f : EndsWith(f, <<"y">>))

\* changed_python_files: the lines of the diff that end in ".py", in order.
changed_python_files(lines) ==
    SelectSeq(lines, LAMBDA f : EndsWith(f, PySuffix))

Finding(file, line, column, code, message) ==
    [file |-> file, line |-> line, column |-> column, code |-> code,
     message |-> message]

\* What the linter printed: nothing, text that is not JSON, or a JSON list
\* of issues.
NoStdout == [kind |-> "empty", issues |-> <<>>]
GarbageStdout == [kind |-> "garbage", issues |-> <<>>]
JsonStdout(issues) == [kind |-> "json", issues |-> issues]

RuffIssue(file) ==
    [filename |-> file, row |-> 3, column |-> 7, code |-> "E501",
     message |-> "Line too long"]

\* run_ruff: the findings appended, or the exception that leaves it.
\* Result: [raised |-> BOOLEAN, errors |-> findings, ran |-> tools started].
run_ruff(files, out) ==
    IF files = <<>> THEN [raised |-> FALSE, errors |-> <<>>, ran |-> <<>>]
    ELSE IF out.kind = "empty"
         THEN [raised |-> FALSE, errors |-> <<>>, ran |-> <<"ruff check">>]
    ELSE IF out.kind = "garbage"
         THEN [raised |-> TRUE, errors |-> <<>>, ran |-> <<"ruff check">>]
    ELSE [raised |-> FALSE,
          errors |-> [i \in DOMAIN out.issues |->
                        Finding(out.issues[i].filename, out.issues[i].row,
                                out.issues[i].column, out.issues[i].code,
                                out.issues[i].message)],
          ran |-> <<"ruff check">>]

\* Variant: the exit code of the formatter is not looked at.
FormatCheckIgnoresExit(files, returncode) ==
    IF files = <<>> THEN [errors |-> <<>>, ran |-> <<>>]
    ELSE [errors |-> <<>>, ran |-> <<"ruff format">>]

\* run_format_check: one FORMAT finding per scoped file when the formatter
\* exits non-zero.
run_format_check(files, returncode) ==
    IF files = <<>> THEN [errors |-> <<>>, ran |-> <<>>]
    ELSE [errors |-> IF returncode # 0
                     THEN [i \in DOMAIN files |->
                             Finding(files[i], 1, 1, "FORMAT",
                                     "File is not properly formatted")]
                     ELSE <<>>,
          ran |-> <<"ruff format">>]

TESTS_DIR == <<"t", "e", "s", "t", "s", "/">>

\* run_pytest: one TEST finding when the test runner exits non-zero.
run_pytest(returncode) ==
    [errors |-> IF returncode # 0
                THEN <<Finding(TESTS_DIR, 1, 1, "TEST", "Tests failed")>>
                ELSE <<>>,
     ran |-> <<"pytest">>]

\* The outcomes of the external tools of one review: whether git diff
\* succeeds and the lines it prints, what the linter prints, and the exit
\* codes of the formatter and of the test runner.
Tools(diff_ok, diff, ruff, format_rc, pytest_rc) ==
    [diff_ok |-> diff_ok, diff |-> diff, ruff |-> ruff,
     format_rc |-> format_rc, pytest_rc |-> pytest_rc]

ToolResults ==
    { Tools(FALSE, <<>>, NoStdout, 0, 0),
      Tools(TRUE, <<B_TXT>>, NoStdout, 0, 0),
      Tools(TRUE, <<B_TXT>>, NoStdout, 0, 1),
      Tools(TRUE, <<A_PY, B_TXT>>, NoStdout, 0, 0),
      Tools(TRUE, <<A_PY, B_TXT>>, NoStdout, 1, 0),
      Tools(TRUE, <<A_PY, B_TXT>>, JsonStdout(<<RuffIssue(A_PY)>>), 0, 1),
      Tools(TRUE, <<A_PY, B_TXT>>, GarbageStdout, 0, 0) }

\* Variant: success is decided before the test findings are added.
RunAllSuccessBeforeTests(t) ==
    IF ~t.diff_ok
    THEN [raised |-> TRUE, errors |-> <<>>, success |-> FALSE,
          ran |-> <<"git diff">>]
    ELSE LET files == changed_python_files(t.diff)
             r == run_ruff(files, t.ruff)
             f == run_format_check(files, t.format_rc)
             p == run_pytest(t.pytest_rc)
         IN IF r.raised
            THEN [raised |-> TRUE, errors |-> r.errors, success |-> FALSE,
                  ran |-> <<"git diff">> \o r.ran]
            ELSE [raised |-> FALSE, errors |-> r.errors \o f.errors \o p.errors,
                  success |-> (r.errors \o f.errors = <<>>),
                  ran |-> <<"git diff">> \o r.ran \o f.ran \o p.ran]

\* run_all: diff, then the three checks in order; an exception in one step
\* skips the rest.  Result: [raised, errors, success, ran].
run_all(t) ==
    IF ~t.diff_ok
    THEN [raised |-> TRUE, errors |-> <<>>, success |-> FALSE,
          ran |-> <<"git diff">>]
    ELSE LET files == changed_python_files(t.diff)
             r == run_ruff(files, t.ruff)
             f == run_format_check(files, t.format_rc)
             p == run_pytest(t.pytest_rc)
         IN IF r.raised
            THEN [raised |-> TRUE, errors |-> r.errors, success |-> FALSE,
                  ran |-> <<"git diff">> \o r.ran]
            ELSE LET errs == r.errors \o f.errors \o p.errors
                 IN [raised |-> FALSE, errors |-> errs,
                     success |-> (errs = <<>>),
                     ran |-> <<"git diff">> \o r.ran \o f.ran \o p.ran]

\* build_comment: the marker, a heading, and one line per finding.
build_comment(errors) ==
    [text |-> <<BOT_MARKER, "## Code Review Results">>,
     count |-> Len(errors),
     lines |-> errors]

\* BOT_MARKER in c["body"]
HasMarker(body) == \E i \in DOMAIN body.text : body.text[i] = BOT_MARKER

\* ------------------------------------------------------------------------
\* Local review script (ReviewBot, scripts/review_bot.py:15-173)
\* ------------------------------------------------------------------------
ScriptFinding(file, line, column, code, message, severity) ==
    [file |-> file, line |-> line, column |-> column, code |-> code,
     message |-> message, severity |-> severity]

\* result.stdout.strip().split("\n"): empty output gives one empty line.
ScriptLines(stdout) == IF stdout = <<>> THEN << <<>> >> ELSE stdout

\* Variant: a changed file that no longer exists is kept.
GetChangedFilesIgnoringExists(stdout, existing) ==
    SelectSeq(ScriptLines(stdout), LAMBDA f : EndsWith(f, PySuffix))

\* _get_changed_files: the lines that end in ".py" and name an existing file.
ReviewBot_get_changed_files(stdout, existing) ==
    SelectSeq(ScriptLines(stdout),
              LAMBDA f : EndsWith(f, PySuffix) /\ f \in existing)

\* The codes of the model that start with "E" or "F".
ErrorCodes == {"E501"}

\* _run_ruff_check: output that is not JSON is caught and gives no finding.
ReviewBot_run_ruff_check(files, out) ==
    IF files = <<>> THEN [errors |-> <<>>, ran |-> <<>>]
    ELSE [errors |->
            IF out.kind = "json"
            THEN [i \in DOMAIN out.issues |->
                    ScriptFinding(out.issues[i].filename, out.issues[i].row,
                                  out.issues[i].column, out.issues[i].code,
                                  out.issues[i].message,
                                  IF out.issues[i].code \in ErrorCodes
                                  THEN "error" ELSE "warning")]
            ELSE <<>>,
          ran |-> <<"ruff check">>]

\* _run_ruff_format_check: one FORMAT finding per file on a non-zero exit.
ReviewBot_run_ruff_format_check(files, returncode) ==
    IF files = <<>> THEN [errors |-> <<>>, ran |-> <<>>]
    ELSE [errors |->
            IF returncode # 0
            THEN [i \in DOMAIN files |->
                    ScriptFinding(files[i], 1, 1, "FORMAT",
                                  "File is not properly formatted. Run 'ruff format' to fix.",
                                  "warning")]
            ELSE <<>>,
          ran |-> <<"ruff format">>]

\* What pytest answered: its exit code and the number of lines of its output
\* that contain "FAILED".
Pytest(rc, failed) == [rc |-> rc, failed |-> failed]

\* Exit 0: all passed.  Exit 1: tests failed, or only errored (no FAILED
\* line).  Exit 2: interrupted, for instance by a collection error.
PytestOutcomes ==
    {Pytest(0, 0), Pytest(1, 1), Pytest(1, 2), Pytest(1, 0), Pytest(2, 0)}

\* _run_pytest: on a non-zero exit, one TEST finding per line of the output
\* that contains "FAILED".
ReviewBot_run_pytest(p) ==
    [errors |-> IF p.rc # 0
                THEN [i \in 1..p.failed |->
                        ScriptFinding(TESTS_DIR, 1, 1, "TEST",
                                      "Test failure: line", "error")]
                ELSE <<>>,
     ran |-> <<"pytest">>]

\* The input of one run of the script: whether git diff succeeds, the lines
\* it prints, the files that exist, and what the tools answer.
ScriptInput(diff_ok, diff, existing, ruff, format_rc, pytest) ==
    [diff_ok |-> diff_ok, diff |-> diff, existing |-> existing, ruff |-> ruff,
     format_rc |-> format_rc, pytest |-> pytest]

\* run_checks.  Result: [raised, result, errors, ran].
ReviewBot_run_checks(in) ==
    IF ~in.diff_ok
    THEN [raised |-> TRUE, result |-> FALSE, errors |-> <<>>,
          ran |-> <<"git diff">>]
    ELSE LET changed_files == ReviewBot_get_changed_files(in.diff, in.existing)
             lint == ReviewBot_run_ruff_check(changed_files, in.ruff)
             format == ReviewBot_run_ruff_format_check(changed_files, in.format_rc)
             test == ReviewBot_run_pytest(in.pytest)
         IN IF changed_files = <<>>
            THEN [raised |-> FALSE, result |-> TRUE, errors |-> <<>>,
                  ran |-> <<"git diff">>]
            ELSE [raised |-> FALSE,
                  result |-> (Len(lint.errors \o format.errors \o test.errors) = 0),
                  errors |-> lint.errors \o format.errors \o test.errors,
                  ran |-> <<"git diff">> \o lint.ran \o format.ran \o test.ran]

\* ------------------------------------------------------------------------
\* State
\* ------------------------------------------------------------------------
\* The server handles each delivery in its own request thread.
Workers == {"w1", "w2"}

VARIABLES
    secret,        \* WEBHOOK_SECRET
    comments,      \* the comments of the PR on GitHub: records [id, body]
    nextId,        \* the id GitHub gives the next comment
    commitStatus,  \* the latest state of the head SHA in STATUS_CONTEXT
    runs,          \* deliveries received so far
    pc,            \* where each worker is in webhook()
    req,           \* the request a worker handles
    resp,          \* the response it returned
    workdir,       \* reviewer.workdir: "none", "exists", "removed"
    errors,        \* reviewer.errors
    success,       \* the local success of webhook()
    raised,        \* an exception is propagating out of the try block
    todo,          \* the listed marker comments still to delete
    log,           \* the external calls the delivery made, in order
    vcall,         \* one call of verify_signature, for its own specification
    tools,         \* what the external tools of the delivery answered
    acall,         \* one call of the analysis, for its own specification
    script         \* one run of the local review script, for its own specification

vars == <<secret, comments, nextId, commitStatus, runs, pc, req, resp,
          workdir, errors, success, raised, todo, log, vcall, tools, acall, script>>

Secrets == SeqsUpTo(SecretChars, MaxSecretLen)
Payloads == SeqsUpTo(PayloadBytes, MaxPayloadLen)
Headers == SeqsUpTo(HeaderChars, MaxHeaderLen)

\* ------------------------------------------------------------------------
\* Requests
\* ------------------------------------------------------------------------
\* The parsed body: whether it is JSON at all, its action ("absent" when
\* the key is missing) and whether every PR reference field is present.
Json(valid, action, refs) == [valid |-> valid, action |-> action, refs |-> refs]

Body(raw, json) == [raw |-> raw, json |-> json]

OpenedBody == Body(<<1>>, Json(TRUE, "opened", TRUE))
SynchronizeBody == Body(<<0>>, Json(TRUE, "synchronize", TRUE))

Bodies ==
    { Body(<<>>, Json(FALSE, "absent", FALSE)),
      Body(<<0>>, Json(TRUE, "absent", TRUE)),
      Body(<<0>>, Json(TRUE, "closed", TRUE)),
      Body(<<1>>, Json(TRUE, "closed", FALSE)),
      Body(<<1>>, Json(TRUE, "opened", FALSE)),
      OpenedBody,
      SynchronizeBody }

Events == {"pull_request", "ping"}

FlipLast(d) ==
    IF d = <<>> THEN d
    ELSE SubSeq(d, 1, Len(d) - 1) \o <<IF d[Len(d)] = "0" THEN "1" ELSE "0">>

\* The header GitHub computes for a body: "s=" and the digest under the
\* sender's secret.
Signed(sec, raw) == <<"s", "=">> \o HmacHex(sec, raw)

\* Signature headers a delivery may carry: none, one without "=", the right
\* digest, a digest off by one bit, and one with two "=".
RequestSignatures(sec, raw) ==
    { <<>>, <<"s">>, Signed(sec, raw), <<"s", "=">> \o FlipLast(HmacHex(sec, raw)),
      Signed(sec, raw) \o <<"=">> }

Request(sig, event, body) == [sig |-> sig, event |-> event, body |-> body]

\* The deliveries the server may receive when its secret is sec: every event
\* and body under the right signature, and a pull request under each of the
\* other headers.  A server without a secret returns from verify_signature
\* before it looks at the header (lines 46-47), so there one delivery without
\* a header stands for the other headers.
Requests(sec) ==
    LET key == IF sec = <<>> THEN <<"k">> ELSE sec
    IN {Request(Signed(key, b.raw), e, b) : e \in Events, b \in Bodies}
         \cup {Request(s, "pull_request", OpenedBody) :
                 s \in IF sec = <<>> THEN {<<>>}
                       ELSE RequestSignatures(key, OpenedBody.raw)}

\* Deliveries of GitHub itself for a pull request that was opened or pushed to.
ReviewRequests(sec) ==
    LET key == IF sec = <<>> THEN <<"k">> ELSE sec
    IN {Request(Signed(key, b.raw), "pull_request", b) :
          b \in {OpenedBody, SynchronizeBody}}

NoRequest == Request(<<>>, "none", Body(<<>>, Json(FALSE, "absent", FALSE)))

NoCall == [sec |-> <<>>, payload |-> <<>>, header |-> <<>>, result |-> "none"]

\* No tool has run yet.
NoTools == Tools(FALSE, <<>>, NoStdout, 0, 0)

NoAnalysis == [tools |-> NoTools, unformatted |-> {}, step |-> "none",
               files |-> <<>>, format |-> run_format_check(<<>>, 0),
               result |-> run_all(NoTools)]

NoScriptInput == ScriptInput(FALSE, <<>>, {}, NoStdout, 0, Pytest(0, 0))

NoScript == [in |-> NoScriptInput, step |-> "none", files |-> <<>>,
             out |-> ReviewBot_run_checks(NoScriptInput)]

HumanBody == [text |-> <<"LGTM">>, count |-> 0, lines |-> <<>>]
OldBotBody == build_comment(<<Finding(TESTS_DIR, 1, 1, "TEST", "Tests failed")>>)

InitialComments(m) ==
    {[id |-> 1, body |-> HumanBody]}
        \cup {[id |-> i, body |-> OldBotBody] : i \in 2..(m + 1)}

\* ------------------------------------------------------------------------
\* GitHub calls (GitHubClient, app.py:77-106)
\* ------------------------------------------------------------------------
\* A call is answered with success, is answered with an HTTP error status,
\* or raises (connection error, timeout).
Outcomes == {"ok", "http_error", "exception"}

RECURSIVE SortedIds(_)
SortedIds(S) ==
    IF S = {} THEN <<>>
    ELSE LET m == CHOOSE x \in S : \A y \in S : x <= y
         IN <<m>> \o SortedIds(S \ {m})

\* Variant: every listed comment is deleted, marker or not.
AllIds(listing) == SortedIds({c.id : c \in listing})

\* The ids the reconciliation loop deletes: the listed comments whose body
\* contains the marker, in listing order.
\* Variant: the loop stops after the first marker comment.
FirstMarkedId(listing) ==
    LET ids == SortedIds({c.id : c \in {x \in listing : HasMarker(x.body)}})
    IN IF ids = <<>> THEN <<>> ELSE <<Head(ids)>>

MarkedIds(listing) == SortedIds({c.id : c \in {x \in listing : HasMarker(x.body)}})

Marked == {c \in comments : HasMarker(c.body)}

\* ------------------------------------------------------------------------
\* Init
\* ------------------------------------------------------------------------
WorkerInit ==
    /\ pc = [w \in Workers |-> "idle"]
    /\ req = [w \in Workers |-> NoRequest]
    /\ resp = [w \in Workers |-> "none"]
    /\ workdir = [w \in Workers |-> "none"]
    /\ errors = [w \in Workers |-> <<>>]
    /\ success = [w \in Workers |-> FALSE]
    /\ raised = [w \in Workers |-> FALSE]
    /\ todo = [w \in Workers |-> <<>>]
    /\ log = [w \in Workers |-> <<>>]
    /\ tools = [w \in Workers |-> NoTools]

GitHubInit ==
    /\ \E m \in 0..MaxInitialMarked :
          /\ comments = InitialComments(m)
          /\ nextId = m + 2
    /\ commitStatus = "none"

\* The secret the server was started with: none, or one.
ConfiguredSecrets == {<<>>, <<"k">>}

Init ==
    /\ secret \in ConfiguredSecrets
    /\ GitHubInit
    /\ runs = 0
    /\ WorkerInit
    /\ vcall = NoCall
    /\ acall = NoAnalysis
    /\ script = NoScript

\* ------------------------------------------------------------------------
\* webhook() (app.py:227-281)
\* ------------------------------------------------------------------------
Finish(w, response) ==
    /\ pc' = [pc EXCEPT ![w] = "done"]
    /\ resp' = [resp EXCEPT ![w] = response]

\* An entry of the log: the call, its argument, and how it ended ("ok",
\* "http_error", "exception" for a GitHub call; "ok", "failed" for a process).
Entry(op, arg, res) == [op |-> op, arg |-> arg, note |-> "", res |-> res]

StatusCall(state, description, res) ==
    [op |-> "set_status", arg |-> state, note |-> description, res |-> res]

\* The processes started, the last of them failing when failed holds.
ProcEntries(ran, failed) ==
    [i \in DOMAIN ran |->
        Entry("run", ran[i], IF failed /\ i = Len(ran) THEN "failed" ELSE "ok")]

Logged(w, entry) == log' = [log EXCEPT ![w] = Append(@, entry)]

\* Lines 229-250: verify, parse, filter, extract.  The response that ends
\* the delivery here, or "proceed".
\* Variant: a rejected signature does not stop the delivery.
FilterIgnoresReject(sec, r) ==
    IF ~r.body.json.valid THEN "400"
    ELSE IF r.event # "pull_request" THEN "200 Ignored"
    ELSE IF r.body.json.action = "absent" THEN "500"
    ELSE IF r.body.json.action \notin {"opened", "synchronize"} THEN "200 Ignored"
    ELSE IF ~r.body.json.refs THEN "500"
    ELSE "proceed"

\* Variant: the PR reference fields are not read before the review starts.
FilterSkipsRefs(sec, r) ==
    LET v == verify_signature(sec, r.body.raw, r.sig)
    IN IF v = "False" THEN "401"
       ELSE IF v # "True" THEN "500"
       ELSE IF ~r.body.json.valid THEN "400"
       ELSE IF r.event # "pull_request" THEN "200 Ignored"
       ELSE IF r.body.json.action = "absent" THEN "500"
       ELSE IF r.body.json.action \notin {"opened", "synchronize"} THEN "200 Ignored"
       ELSE "proceed"

Filter(sec, r) ==
    LET v == verify_signature(sec, r.body.raw, r.sig)
    IN IF v = "False" THEN "401"
       ELSE IF v # "True" THEN "500"
       ELSE IF ~r.body.json.valid THEN "400"
       ELSE IF r.event # "pull_request" THEN "200 Ignored"
       ELSE IF r.body.json.action = "absent" THEN "500"
       ELSE IF r.body.json.action \notin {"opened", "synchronize"} THEN "200 Ignored"
       ELSE IF ~r.body.json.refs THEN "500"
       ELSE "proceed"

\* A delivery out of R arrives at a free worker and is verified and filtered.
Dispatch(w, R) ==
    /\ pc[w] \in {"idle", "done"}
    /\ runs < MaxRuns
    /\ runs' = runs + 1
    /\ \E r \in R :
         LET f == Filter(secret, r)
         IN /\ req' = [req EXCEPT ![w] = r]
            /\ pc' = [pc EXCEPT ![w] = IF f = "proceed" THEN "pending" ELSE "done"]
            /\ resp' = [resp EXCEPT ![w] = IF f = "proceed" THEN "none" ELSE f]
    /\ workdir' = [workdir EXCEPT ![w] = "none"]
    /\ errors' = [errors EXCEPT ![w] = <<>>]
    /\ success' = [success EXCEPT ![w] = FALSE]
    /\ raised' = [raised EXCEPT ![w] = FALSE]
    /\ todo' = [todo EXCEPT ![w] = <<>>]
    /\ log' = [log EXCEPT ![w] = <<>>]
    /\ tools' = [tools EXCEPT ![w] = NoTools]
    /\ UNCHANGED <<secret, comments, nextId, commitStatus, vcall, acall, script>>

\* Variant: the review starts without the pending status.
SetPendingSkipped(w, O) ==
    /\ pc[w] = "pending"
    /\ pc' = [pc EXCEPT ![w] = "review"]
    /\ UNCHANGED <<secret, comments, nextId, commitStatus, runs, req, resp,
                   workdir, errors, success, raised, todo, log, vcall, tools,
                   acall, script>>

\* Line 253: gh.set_status(head_sha, "pending", ...); O is the set of
\* outcomes the call may have.
SetPending(w, O) ==
    /\ pc[w] = "pending"
    /\ \E o \in O :
         /\ Logged(w, StatusCall("pending", "Running code quality checks", o))
         /\ commitStatus' = IF o = "ok" THEN "pending" ELSE commitStatus
         /\ IF o = "exception" THEN Finish(w, "500")
            ELSE /\ pc' = [pc EXCEPT ![w] = "review"]
                 /\ UNCHANGED resp
    /\ UNCHANGED <<secret, comments, nextId, runs, req, workdir, errors,
                   success, raised, todo, vcall, tools, acall, script>>

\* clone_repo: the git commands started, and whether one of them failed.
CloneOk == [ok |-> TRUE, ran |-> <<"git clone", "git fetch", "git checkout">>]

CloneOutcomes ==
    { CloneOk,
      [ok |-> FALSE, ran |-> <<"git clone">>],
      [ok |-> FALSE, ran |-> <<"git clone", "git fetch">>],
      [ok |-> FALSE, ran |-> <<"git clone", "git fetch", "git checkout">>] }

\* Lines 255-259: CodeReviewer(...) creates the workspace; clone_repo and
\* run_all run inside the try block.  C and T are the outcomes the git
\* commands and the tools may have.
Review(w, C, T) ==
    /\ pc[w] = "review"
    /\ workdir' = [workdir EXCEPT ![w] = "exists"]
    /\ \E c \in C :
         IF ~c.ok
         THEN /\ raised' = [raised EXCEPT ![w] = TRUE]
              /\ log' = [log EXCEPT ![w] =
                            @ \o <<Entry("mkdtemp", "", "ok")>>
                              \o ProcEntries(c.ran, TRUE)]
              /\ pc' = [pc EXCEPT ![w] = "except"]
              /\ UNCHANGED <<errors, success, tools>>
         ELSE \E t \in T :
                LET a == run_all(t)
                IN /\ raised' = [raised EXCEPT ![w] = a.raised]
                   /\ tools' = [tools EXCEPT ![w] = t]
                   /\ log' = [log EXCEPT ![w] =
                                 @ \o <<Entry("mkdtemp", "", "ok")>>
                                   \o ProcEntries(c.ran, FALSE)
                                   \o ProcEntries(a.ran, a.raised)]
                   /\ errors' = [errors EXCEPT ![w] = a.errors]
                   /\ success' = [success EXCEPT ![w] = a.success]
                   /\ pc' = [pc EXCEPT ![w] = IF a.raised THEN "except" ELSE "finally"]
    /\ UNCHANGED <<secret, comments, nextId, commitStatus, runs, req, resp,
                   todo, vcall, acall, script>>

\* Variant: the exception is re-raised without a status update.
ExceptHandlerSilent(w, O) ==
    /\ pc[w] = "except"
    /\ pc' = [pc EXCEPT ![w] = "finally"]
    /\ UNCHANGED <<secret, comments, nextId, commitStatus, runs, req, resp,
                   workdir, errors, success, raised, todo, log, vcall, tools, acall, script>>

\* Lines 260-262: set the error status, then re-raise.
ExceptHandler(w, O) ==
    /\ pc[w] = "except"
    /\ \E o \in O :
         /\ Logged(w, StatusCall("error", "CI execution failed", o))
         /\ commitStatus' = IF o = "ok" THEN "error" ELSE commitStatus
    /\ pc' = [pc EXCEPT ![w] = "finally"]
    /\ UNCHANGED <<secret, comments, nextId, runs, req, resp, workdir,
                   errors, success, raised, todo, vcall, tools, acall, script>>

\* Variant: cleanup() after the try statement instead of in its finally.
CleanupUnlessRaised(w) ==
    /\ pc[w] = "finally"
    /\ workdir' = [workdir EXCEPT ![w] = IF raised[w] THEN @ ELSE "removed"]
    /\ log' = [log EXCEPT ![w] =
                  IF raised[w] THEN @ ELSE Append(@, Entry("rmtree", "", "ok"))]
    /\ IF raised[w] THEN Finish(w, "500")
       ELSE /\ pc' = [pc EXCEPT ![w] = "list"]
            /\ UNCHANGED resp
    /\ UNCHANGED <<secret, comments, nextId, commitStatus, runs, req,
                   errors, success, raised, todo, vcall, tools, acall, script>>

\* Variant: the exception is swallowed after cleanup and the run goes on.
CleanupThenReconcile(w) ==
    /\ pc[w] = "finally"
    /\ workdir' = [workdir EXCEPT ![w] = "removed"]
    /\ Logged(w, Entry("rmtree", "", "ok"))
    /\ pc' = [pc EXCEPT ![w] = "list"]
    /\ UNCHANGED <<secret, comments, nextId, commitStatus, runs, req, resp,
                   errors, success, raised, todo, vcall, tools, acall, script>>

\* Lines 263-264 and 122-123: reviewer.cleanup() in the finally clause.
Cleanup(w) ==
    /\ pc[w] = "finally"
    /\ workdir' = [workdir EXCEPT ![w] = "removed"]
    /\ Logged(w, Entry("rmtree", "", "ok"))
    /\ IF raised[w] THEN Finish(w, "500")
       ELSE /\ pc' = [pc EXCEPT ![w] = "list"]
            /\ UNCHANGED resp
    /\ UNCHANGED <<secret, comments, nextId, commitStatus, runs, req,
                   errors, success, raised, todo, vcall, tools, acall, script>>

\* Variant: the listed marker comments are not deleted.
ListCommentsKeepsAll(w, O) ==
    /\ pc[w] = "list"
    /\ \E o \in O :
         /\ Logged(w, Entry("list_pr_comments", "", o))
         /\ IF o = "ok"
            THEN /\ todo' = [todo EXCEPT ![w] = MarkedIds(comments)]
                 /\ pc' = [pc EXCEPT ![w] = "final"]
                 /\ UNCHANGED resp
            ELSE /\ Finish(w, "500")
                 /\ UNCHANGED todo
    /\ UNCHANGED <<secret, comments, nextId, commitStatus, runs, req,
                   workdir, errors, success, raised, vcall, tools, acall, script>>

\* Line 267: gh.list_pr_comments(pr_number); raise_for_status raises on an
\* HTTP error.
ListComments(w, O) ==
    /\ pc[w] = "list"
    /\ \E o \in O :
         /\ Logged(w, Entry("list_pr_comments", "", o))
         /\ IF o = "ok"
            THEN /\ todo' = [todo EXCEPT ![w] = MarkedIds(comments)]
                 /\ pc' = [pc EXCEPT ![w] =
                             IF MarkedIds(comments) = <<>> THEN "final" ELSE "delete"]
                 /\ UNCHANGED resp
            ELSE /\ Finish(w, "500")
                 /\ UNCHANGED todo
    /\ UNCHANGED <<secret, comments, nextId, commitStatus, runs, req,
                   workdir, errors, success, raised, vcall, tools, acall, script>>

\* Lines 268-269: gh.delete_comment(c["id"]) for the next marker comment.
\* The response of the DELETE is not looked at.
DeleteComment(w, O) ==
    /\ pc[w] = "delete"
    /\ \E o \in O :
         /\ Logged(w, Entry("delete_comment", "", o))
         /\ comments' = IF o = "ok"
                        THEN {c \in comments : c.id # Head(todo[w])}
                        ELSE comments
         /\ IF o = "exception"
            THEN /\ Finish(w, "500")
                 /\ UNCHANGED todo
            ELSE /\ todo' = [todo EXCEPT ![w] = Tail(@)]
                 /\ pc' = [pc EXCEPT ![w] =
                             IF Tail(todo[w]) = <<>> THEN "final" ELSE "delete"]
                 /\ UNCHANGED resp
    /\ UNCHANGED <<secret, nextId, commitStatus, runs, req, workdir, errors,
                   success, raised, vcall, tools, acall, script>>

\* Variant: a comment is posted after the final status whatever the result.
SetFinalAlwaysPost(w, O) ==
    /\ pc[w] = "final"
    /\ \E o \in O :
         /\ Logged(w, IF success[w]
                      THEN StatusCall("success", "All checks passed", o)
                      ELSE StatusCall("failure", "Found len(errors) issue(s)", o))
         /\ commitStatus' = IF o = "ok"
                            THEN (IF success[w] THEN "success" ELSE "failure")
                            ELSE commitStatus
         /\ IF o = "exception" THEN Finish(w, "500")
            ELSE /\ pc' = [pc EXCEPT ![w] = "post"]
                 /\ UNCHANGED resp
    /\ UNCHANGED <<secret, comments, nextId, runs, req, workdir, errors,
                   success, raised, todo, vcall, tools, acall, script>>

\* Lines 271-278: the final status; line 281 when the review passed.
SetFinal(w, O) ==
    /\ pc[w] = "final"
    /\ \E o \in O :
         /\ Logged(w, IF success[w]
                      THEN StatusCall("success", "All checks passed", o)
                      ELSE StatusCall("failure", "Found len(errors) issue(s)", o))
         /\ commitStatus' = IF o = "ok"
                            THEN (IF success[w] THEN "success" ELSE "failure")
                            ELSE commitStatus
         /\ IF o = "exception" THEN Finish(w, "500")
            ELSE IF success[w] THEN Finish(w, "200 success=true")
            ELSE /\ pc' = [pc EXCEPT ![w] = "post"]
                 /\ UNCHANGED resp
    /\ UNCHANGED <<secret, comments, nextId, runs, req, workdir, errors,
                   success, raised, todo, vcall, tools, acall, script>>

\* Variant: the comment posted does not carry the marker.
PostCommentUnmarked(w, O) ==
    /\ pc[w] = "post"
    /\ \E o \in O :
         /\ Logged(w, Entry("post_pr_comment", "", o))
         /\ IF o = "ok"
            THEN /\ comments' = comments \cup
                       {[id |-> nextId,
                         body |-> [build_comment(errors[w]) EXCEPT
                                      !.text = <<"## Code Review Results">>]]}
                 /\ nextId' = nextId + 1
            ELSE UNCHANGED <<comments, nextId>>
         /\ Finish(w, IF o = "exception" THEN "500" ELSE "200 success=false")
    /\ UNCHANGED <<secret, commitStatus, runs, req, workdir, errors,
                   success, raised, todo, vcall, tools, acall, script>>

\* Line 279 and 281: post the new comment, answer with the summary.
PostComment(w, O) ==
    /\ pc[w] = "post"
    /\ \E o \in O :
         /\ Logged(w, Entry("post_pr_comment", "", o))
         /\ IF o = "ok"
            THEN /\ comments' = comments \cup
                       {[id |-> nextId, body |-> build_comment(errors[w])]}
                 /\ nextId' = nextId + 1
            ELSE UNCHANGED <<comments, nextId>>
         /\ Finish(w, IF o = "exception" THEN "500" ELSE "200 success=false")
    /\ UNCHANGED <<secret, commitStatus, runs, req, workdir, errors,
                   success, raised, todo, vcall, tools, acall, script>>

\* One step of the delivery worker w handles.
Handle(w, O, C, T) ==
    \/ SetPending(w, O)
    \/ Review(w, C, T)
    \/ ExceptHandler(w, O)
    \/ Cleanup(w)
    \/ ListComments(w, O)
    \/ DeleteComment(w, O)
    \/ SetFinal(w, O)
    \/ PostComment(w, O)

\* No delivery is in flight.
Quiet == \A w \in Workers : pc[w] \in {"idle", "done"}

\* Deliveries handled one after another: any request, any outcome of the
\* git commands, the tools and the GitHub calls.
Next ==
    \/ Quiet /\ Dispatch("w1", Requests(secret))
    \/ Handle("w1", Outcomes, CloneOutcomes, ToolResults)

Spec == Init /\ [][Next]_vars

\* Deliveries for the same PR handled concurrently, one per worker, with
\* git and GitHub answering every call.
NextConcurrent ==
    \E w \in Workers :
        \/ Dispatch(w, ReviewRequests(secret))
        \/ Handle(w, {"ok"}, {CloneOk}, ToolResults)

SpecConcurrent == Init /\ [][NextConcurrent]_vars

\* verify_signature on its own: any secret, payload and header.
InitVerify ==
    /\ secret = <<>>
    /\ comments = InitialComments(0)
    /\ nextId = 2
    /\ commitStatus = "none"
    /\ runs = 0
    /\ WorkerInit
    /\ vcall \in [sec : Secrets, payload : Payloads, header : Headers,
                  result : {"pending"}]
    /\ acall = NoAnalysis
    /\ script = NoScript

VerifyCall ==
    /\ vcall.result = "pending"
    /\ vcall' = [vcall EXCEPT !.result =
                    verify_signature(vcall.sec, vcall.payload, vcall.header)]
    /\ UNCHANGED <<secret, comments, nextId, commitStatus, runs, pc, req,
                   resp, workdir, errors, success, raised, todo, log, tools,
                   acall, script>>

NextVerify == VerifyCall

SpecVerify == InitVerify /\ [][NextVerify]_vars

\* ------------------------------------------------------------------------
\* CodeReviewer on its own (app.py:130-207): any diff, any tool outcome
\* ------------------------------------------------------------------------
\* The elements of a sequence.
Range(seq) == {seq[i] : i \in DOMAIN seq}

\* ruff format --check exits 1 when one of the files it is given would be
\* reformatted and 0 when none would.
FormatExit(files, unformatted) ==
    IF Range(files) \cap unformatted # {} THEN 1 ELSE 0

\* The reviews of a cloned repository: the lines of the diff, which of the
\* changed Python files are not formatted, what the linter prints and the
\* exit code of the tests.
AnalysisInputs ==
    {[tools |-> NoTools, unformatted |-> {}, step |-> "pending",
      files |-> <<>>, format |-> run_format_check(<<>>, 0),
      result |-> run_all(NoTools)]}
    \cup
    UNION {
      UNION {
        {[tools |-> Tools(TRUE, d, r,
                          FormatExit(changed_python_files(d), u), p),
          unformatted |-> u, step |-> "pending", files |-> <<>>,
          format |-> run_format_check(<<>>, 0),
          result |-> run_all(NoTools)] :
            r \in {NoStdout, GarbageStdout}
                    \cup {JsonStdout(<<RuffIssue(f)>>) :
                             f \in Range(changed_python_files(d))},
            p \in {0, 1}} :
        u \in SUBSET Range(changed_python_files(d))} :
      d \in DiffLists}

InitAnalysis ==
    /\ secret = <<>>
    /\ comments = InitialComments(0)
    /\ nextId = 2
    /\ commitStatus = "none"
    /\ runs = 0
    /\ WorkerInit
    /\ vcall = NoCall
    /\ acall \in AnalysisInputs
    /\ script = NoScript

\* Line 203: files = self.changed_python_files(); git diff failing raises.
ScopeCall ==
    /\ acall.step = "pending"
    /\ acall' = IF acall.tools.diff_ok
                THEN [acall EXCEPT !.step = "scoped",
                                   !.files = changed_python_files(acall.tools.diff)]
                ELSE [acall EXCEPT !.step = "raised",
                                   !.result = run_all(acall.tools)]
    /\ UNCHANGED <<secret, comments, nextId, commitStatus, runs, pc, req,
                   resp, workdir, errors, success, raised, todo, log, tools,
                   vcall, script>>

\* Line 205: self.run_format_check(files), on its own.
FormatCall ==
    /\ acall.step = "scoped"
    /\ acall' = [acall EXCEPT !.step = "formatted",
                              !.format = run_format_check(acall.files,
                                                          acall.tools.format_rc)]
    /\ UNCHANGED <<secret, comments, nextId, commitStatus, runs, pc, req,
                   resp, workdir, errors, success, raised, todo, log, tools,
                   vcall, script>>

\* Lines 202-207: run_all as a whole.
AnalyseCall ==
    /\ acall.step = "formatted"
    /\ acall' = [acall EXCEPT !.step = "done",
                              !.result = run_all(acall.tools)]
    /\ UNCHANGED <<secret, comments, nextId, commitStatus, runs, pc, req,
                   resp, workdir, errors, success, raised, todo, log, tools,
                   vcall, script>>

NextAnalysis == ScopeCall \/ FormatCall \/ AnalyseCall

SpecAnalysis == InitAnalysis /\ [][NextAnalysis]_vars

\* ------------------------------------------------------------------------
\* ReviewBot.run_checks on its own (scripts/review_bot.py:27-173)
\* ------------------------------------------------------------------------
\* A run of the script that has not started, on the given input.
PendingScript(in) ==
    [in |-> in, step |-> "pending", files |-> <<>>,
     out |-> ReviewBot_run_checks(NoScriptInput)]

\* The runs of the script: a failing git diff, or any diff with any of its
\* paths still existing, and any answer of the tools.
InitScript ==
    /\ secret = <<>>
    /\ comments = InitialComments(0)
    /\ nextId = 2
    /\ commitStatus = "none"
    /\ runs = 0
    /\ WorkerInit
    /\ vcall = NoCall
    /\ acall = NoAnalysis
    /\ \/ script = PendingScript(NoScriptInput)
       \/ \E d \in DiffLists :
             \E e \in SUBSET (Range(d) \ {B_TXT, PY}) :
                \E r \in {NoStdout, GarbageStdout, JsonStdout(<<RuffIssue(A_PY)>>)} :
                   \E f \in {0, 1} :
                      \E p \in PytestOutcomes :
                         script = PendingScript(ScriptInput(TRUE, d, e, r, f, p))

\* Line 151: changed_files = self._get_changed_files(); git diff failing
\* raises (check=True).
GetChangedFilesCall ==
    /\ script.step = "pending"
    /\ script' = IF script.in.diff_ok
                 THEN [script EXCEPT
                         !.step = "scoped",
                         !.files = ReviewBot_get_changed_files(script.in.diff,
                                                               script.in.existing)]
                 ELSE [script EXCEPT !.step = "raised",
                                     !.out = ReviewBot_run_checks(script.in)]
    /\ UNCHANGED <<secret, comments, nextId, commitStatus, runs, pc, req,
                   resp, workdir, errors, success, raised, todo, log, tools,
                   vcall, acall>>

\* Lines 146-173: run_checks as a whole.
RunChecksCall ==
    /\ script.step = "scoped"
    /\ script' = [script EXCEPT !.step = "done",
                                !.out = ReviewBot_run_checks(script.in)]
    /\ UNCHANGED <<secret, comments, nextId, commitStatus, runs, pc, req,
                   resp, workdir, errors, success, raised, todo, log, tools,
                   vcall, acall>>

NextScript == GetChangedFilesCall \/ RunChecksCall

SpecScript == InitScript /\ [][NextScript]_vars

\* ------------------------------------------------------------------------
\* Properties
\* ------------------------------------------------------------------------
CommentOps == {"list_pr_comments", "delete_comment", "post_pr_comment"}
FinalStates == {"success", "failure", "error"}

\* The outcome of the signature check of the delivery worker w handles.
Verified(w) == verify_signature(secret, req[w].body.raw, req[w].sig)

Received(w) == req[w] # NoRequest

\* The delivery of w ended with the 200 summary.
Summary(w) ==
    pc[w] = "done" /\ resp[w] \in {"200 success=true", "200 success=false"}

\* Every list, delete and create call of the delivery was answered with
\* success.
CommentCallsOk(w) ==
    \A i \in DOMAIN log[w] : log[w][i].op \in CommentOps => log[w][i].res = "ok"

\* The positions of the status calls of w for one of the given states.
StatusCalls(w, states) ==
    {i \in DOMAIN log[w] : log[w][i].op = "set_status" /\ log[w][i].arg \in states}

\* A git command or a tool of the delivery raised.
StepFailed(w) ==
    \E i \in DOMAIN log[w] : log[w][i].op = "run" /\ log[w][i].res = "failed"

C2_ConcurrentRunsConverge ==
    (\A w \in Workers : pc[w] = "done") => Cardinality(Marked) <= 1

\* C3: a delivery whose signature is rejected is answered 401 and makes no
\* external call: no status, list, delete or post, no process, no workspace.
C3_RejectedHasNoEffect ==
    \A w \in Workers :
        Received(w) /\ Verified(w) = "False" =>
            /\ pc[w] = "done"
            /\ resp[w] = "401"
            /\ log[w] = <<>>
            /\ workdir[w] = "none"

C3_Witness ==
    \E w \in Workers :
        /\ Received(w) /\ Verified(w) = "False"
        /\ req[w].sig # <<>>
        /\ resp[w] = "401"

\* C4: with a secret configured, a missing header, a header that is not
\* "<algorithm>=<digest>" and a digest other than the HMAC of the body are
\* all rejected, and none of them ends in an exception.
C4_BadHeaderRejected ==
    LET parts == Split(vcall.header, "=")
    IN /\ vcall.result \notin {"none", "pending"}
       /\ vcall.sec # <<>>
       /\ \/ vcall.header = <<>>
          \/ Len(parts) # 2
          \/ parts[2] # HmacHex(vcall.sec, vcall.payload)
       => vcall.result = "False"

\* A supplied digest: any string of digest characters.
IsDigest(d) == \A i \in 1..Len(d) : d[i] \in DigestChars

\* C5: with a secret configured, a header carrying the HMAC of the payload
\* is accepted and a header carrying any other digest is rejected.
C5_DigestDecides ==
    LET parts == Split(vcall.header, "=")
    IN /\ vcall.result \notin {"none", "pending"}
       /\ vcall.sec # <<>>
       /\ Len(parts) = 2
       /\ IsDigest(parts[2])
       => vcall.result =
            (IF parts[2] = HmacHex(vcall.sec, vcall.payload) THEN "True" ELSE "False")

C5_Witness ==
    /\ vcall.sec # <<>>
    /\ vcall.payload # <<>>
    /\ vcall.header = Signed(vcall.sec, vcall.payload)
    /\ vcall.result = "True"

\* C6: with no secret configured every payload is accepted under every
\* header, the missing and the malformed ones included.
C6_NoSecretAccepts ==
    vcall.result \notin {"none", "pending"} /\ vcall.sec = <<>> =>
        vcall.result = "True"

C6_Witness ==
    /\ vcall.sec = <<>>
    /\ vcall.header = <<>>
    /\ vcall.result = "True"

\* C7: an accepted delivery whose event is not pull_request, or whose action
\* is neither opened nor synchronize, is answered 200 "Ignored" and makes no
\* external call.
C7_FilteredIsIgnored ==
    \A w \in Workers :
        /\ Received(w) /\ Verified(w) = "True"
        /\ \/ req[w].event # "pull_request"
           \/ /\ req[w].body.json.valid
              /\ req[w].body.json.action \notin {"absent", "opened", "synchronize"}
        => /\ pc[w] = "done"
           /\ resp[w] = "200 Ignored"
           /\ log[w] = <<>>
           /\ workdir[w] = "none"

\* C8: when the handling of a delivery has ended, the workspace it created
\* has been deleted.
C8_WorkspaceDeleted ==
    \A w \in Workers :
        /\ workdir[w] = "exists" => pc[w] \in {"except", "finally"}
        /\ pc[w] = "done" /\ (\E i \in DOMAIN log[w] : log[w][i].op = "mkdtemp")
             => workdir[w] = "removed"

\* An analysis step raised, the error status call raised too, and the
\* workspace is gone.
C8_Witness ==
    \E w \in Workers :
        /\ pc[w] = "done"
        /\ workdir[w] = "removed"
        /\ StepFailed(w)
        /\ \E i \in StatusCalls(w, {"error"}) : log[w][i].res = "exception"

\* C9: when a git command or an analysis step raises, the handler calls
\* set_status "error" / "CI execution failed" after it, answers 500, and makes
\* no success or failure status call and no comment call.
C9_FailureSetsError ==
    \A w \in Workers :
        pc[w] = "done" /\ StepFailed(w) =>
            /\ resp[w] = "500"
            /\ \E i \in StatusCalls(w, {"error"}) :
                  /\ log[w][i].note = "CI execution failed"
                  /\ log[w][i - 1].op = "run" /\ log[w][i - 1].res = "failed"
                  /\ log[w][i].res = "ok" => commitStatus = "error"
            /\ StatusCalls(w, {"success", "failure"}) = {}
            /\ \A i \in DOMAIN log[w] : log[w][i].op \notin CommentOps

C9_Witness ==
    \E w \in Workers :
        /\ pc[w] = "done" /\ StepFailed(w)
        /\ resp[w] = "500"
        /\ commitStatus = "error"
        /\ \E i \in DOMAIN log[w] : log[w][i].arg = "ruff check"

\* C10: a delivery that has set the pending status makes exactly one final
\* status call after it before its handling ends.
C10_PendingThenFinal ==
    \A w \in Workers :
        pc[w] = "done" =>
            \A i \in StatusCalls(w, {"pending"}) :
                log[w][i].res = "ok" =>
                    Cardinality({j \in StatusCalls(w, FinalStates) : j > i}) = 1

\* The findings of the three checks of the delivery, merged in order.
MergedFindings(w) ==
    LET files == changed_python_files(tools[w].diff)
    IN run_ruff(files, tools[w].ruff).errors
         \o run_format_check(files, tools[w].format_rc).errors
         \o run_pytest(tools[w].pytest_rc).errors

\* C11: on normal completion the one final status call is "success" exactly
\* when the merged finding list is empty and "failure" otherwise, and the
\* success value of the 200 response is that same flag.
C11_StatusMatchesFindings ==
    \A w \in Workers :
        Summary(w) =>
            LET finals == StatusCalls(w, FinalStates)
                clean == (MergedFindings(w) = <<>>)
            IN /\ errors[w] = MergedFindings(w)
               /\ Cardinality(finals) = 1
               /\ \A i \in finals :
                     /\ log[w][i].arg = (IF clean THEN "success" ELSE "failure")
                     /\ log[w][i].res = "ok" => commitStatus = log[w][i].arg
               /\ resp[w] = (IF clean THEN "200 success=true"
                                      ELSE "200 success=false")

C11_Witness ==
    \E w \in Workers :
        /\ Summary(w)
        /\ MergedFindings(w) # <<>>
        /\ commitStatus = "failure"
        /\ resp[w] = "200 success=false"

\* Every GitHub call of the delivery was answered with success.
GitHubCallsOk(w) ==
    \A i \in DOMAIN log[w] :
        log[w][i].op \in CommentOps \cup {"set_status"} => log[w][i].res = "ok"

\* The positions of the calls of w to the given operation.
Calls(w, op) == {i \in DOMAIN log[w] : log[w][i].op = op}

FormatOnlyRun(w) ==
    /\ pc[w] = "done"
    /\ req[w] # NoRequest
    /\ req[w].body = SynchronizeBody
    /\ tools[w].diff_ok
    /\ Len(changed_python_files(tools[w].diff)) = 1
    /\ tools[w].format_rc # 0
    /\ LET r == run_ruff(changed_python_files(tools[w].diff), tools[w].ruff)
       IN ~r.raised /\ r.errors = <<>>
    /\ tools[w].pytest_rc = 0

\* The comment body holds the marker and a FORMAT line for file at 1:1.
FormatComment(body, file) ==
    /\ HasMarker(body)
    /\ \E i \in DOMAIN body.lines :
          /\ body.lines[i].code = "FORMAT"
          /\ body.lines[i].file = file
          /\ body.lines[i].line = 1
          /\ body.lines[i].column = 1

\* What C13 promises of the delivery of w.
FormatOnlyOutcome(w) ==
    /\ commitStatus = "failure"
    /\ \A i \in StatusCalls(w, FinalStates) : log[w][i].arg = "failure"
    /\ Cardinality(Calls(w, "post_pr_comment")) = 1
    /\ \E c \in comments :
          /\ c.id = nextId - 1
          /\ FormatComment(c.body, changed_python_files(tools[w].diff)[1])

IsPy(f) ==
    /\ Len(f) >= 3
    /\ f[Len(f) - 2] = "." /\ f[Len(f) - 1] = "p" /\ f[Len(f)] = "y"

\* The position in the diff of its k-th line that ends in ".py".
NthPy(d, k) ==
    CHOOSE i \in DOMAIN d :
        IsPy(d[i]) /\ Cardinality({j \in 1..i : IsPy(d[j])}) = k

\* C14: when the scoped list is empty, run_all returns success with no
\* finding, whatever the tools would answer, and neither the linter nor the
\* formatter is started.
C14_EmptyScopeIsPass ==
    (acall.step = "done" /\ acall.files = <<>>) =>
        /\ ~acall.result.raised
        /\ acall.result.success
        /\ acall.result.errors = <<>>
        /\ \A i \in DOMAIN acall.result.ran :
              acall.result.ran[i] \notin {"ruff check", "ruff format"}

\* C17: when the formatter exits non-zero over several scoped files, the
\* format check yields exactly one FORMAT finding at 1:1 for each file that
\* is not formatted and none for a file that is.
C17_OneFindingPerOffendingFile ==
    (/\ acall.step \in {"formatted", "done"}
     /\ acall.tools.format_rc # 0
     /\ Len(acall.files) >= 2) =>
        /\ \A i \in DOMAIN acall.format.errors :
              /\ acall.format.errors[i].code = "FORMAT"
              /\ acall.format.errors[i].line = 1
              /\ acall.format.errors[i].column = 1
        /\ \A f \in Range(acall.files) :
              Cardinality({i \in DOMAIN acall.format.errors :
                              acall.format.errors[i].file = f})
                 = (IF f \in acall.unformatted THEN 1 ELSE 0)

\* C18: the scoped list is the lines of the diff that end in ".py", each
\* once and in the order of the diff, and nothing else; for the diff
\* a.py, b.txt, c.py it is a.py, c.py.
C18_ScopedIsPyInOrder ==
    acall.step \in {"scoped", "formatted", "done"} =>
        LET d == acall.tools.diff
            files == acall.files
        IN /\ Len(files) = Cardinality({i \in DOMAIN d : IsPy(d[i])})
           /\ \A k \in DOMAIN files : files[k] = d[NthPy(d, k)]
           /\ d = <<A_PY, B_TXT, C_PY>> => files = <<A_PY, C_PY>>

C18_Witness ==
    /\ acall.step = "scoped"
    /\ acall.tools.diff = <<A_PY, B_TXT, C_PY>>
    /\ acall.files = <<A_PY, C_PY>>

\* The delivery of w started the process called name.
Ran(w, name) ==
    \E i \in DOMAIN log[w] : log[w][i].op = "run" /\ log[w][i].arg = name

\* The review of w got a diff with Python files in it.
Scoped(w) ==
    tools[w].diff_ok /\ changed_python_files(tools[w].diff) # <<>>

\* C15: when the output of the linter cannot be parsed, the lint check adds
\* no finding and the review goes on: the format and test checks run, no
\* status error is sent, and the final status follows the other findings.
C15_UnparsedLintContinues ==
    \A w \in Workers :
        (pc[w] = "done" /\ Scoped(w) /\ tools[w].ruff.kind = "garbage") =>
            /\ Ran(w, "ruff format")
            /\ Ran(w, "pytest")
            /\ StatusCalls(w, {"error"}) = {}
            /\ errors[w] =
                 run_format_check(changed_python_files(tools[w].diff),
                                  tools[w].format_rc).errors
                   \o run_pytest(tools[w].pytest_rc).errors

\* C16: in every review whose workspace setup and diff succeeded, the lint,
\* format and test checks are all run, whatever an earlier check found or
\* however it failed.
C16_AllChecksRun ==
    \A w \in Workers :
        (pc[w] = "done" /\ Scoped(w)) =>
            /\ Ran(w, "ruff check")
            /\ Ran(w, "ruff format")
            /\ Ran(w, "pytest")

\* The delivery of w is a correctly signed pull_request delivery with a JSON
\* payload, and it has ended.
SignedPullRequest(w) ==
    /\ pc[w] = "done"
    /\ Received(w)
    /\ Verified(w) = "True"
    /\ req[w].event = "pull_request"
    /\ req[w].body.json.valid

\* The delivery of w ended as a fatal error with nothing done.
FatalNoEffect(w) ==
    /\ resp[w] = "500"
    /\ log[w] = <<>>
    /\ workdir[w] = "none"

\* C19 as stated: a correctly signed pull_request delivery whose payload
\* lacks the action or a PR reference field ends as a fatal error, with no
\* status set, no comment call made and no workspace created.
C19_IncompletePayloadFatal ==
    \A w \in Workers :
        (/\ SignedPullRequest(w)
         /\ \/ req[w].body.json.action = "absent"
            \/ ~req[w].body.json.refs) =>
            FatalNoEffect(w)

\* C19, amended: the same, for a payload that lacks the action, or whose
\* action is opened or synchronize and that lacks a PR reference field.
C19_IncompleteReviewPayloadFatal ==
    \A w \in Workers :
        (/\ SignedPullRequest(w)
         /\ \/ req[w].body.json.action = "absent"
            \/ /\ req[w].body.json.action \in {"opened", "synchronize"}
               /\ ~req[w].body.json.refs) =>
            FatalNoEffect(w)

C19_Witness ==
    \E w \in Workers :
        /\ SignedPullRequest(w)
        /\ req[w].body.json.action = "opened"
        /\ ~req[w].body.json.refs
        /\ FatalNoEffect(w)
        /\ runs = 2

\* C20: in a delivery that passed verification and filtering, the call that
\* sets the pending status comes before the workspace is created and before
\* any git or analysis process is started.
C20_PendingBeforeWork ==
    \A w \in Workers :
        /\ \A i \in DOMAIN log[w] :
              log[w][i].op \in {"mkdtemp", "run"} =>
                 \E j \in 1..(i - 1) :
                    log[w][j].op = "set_status" /\ log[w][j].arg = "pending"
        /\ workdir[w] # "none" => StatusCalls(w, {"pending"}) # {}
        /\ pc[w] \in {"review", "except", "finally", "list", "delete",
                      "final", "post"} =>
              (log[w] # <<>> /\ log[w][1].op = "set_status"
                 /\ log[w][1].arg = "pending")

C20_Witness ==
    \E w \in Workers :
        /\ Summary(w)
        /\ Len(log[w]) >= 3
        /\ log[w][1].op = "set_status" /\ log[w][1].arg = "pending"
        /\ log[w][2].op = "mkdtemp"
        /\ Ran(w, "git clone") /\ Ran(w, "git diff") /\ Ran(w, "pytest")

\* A delete call of the delivery failed, and every other GitHub call of the
\* delivery was answered with success.
OnlyDeleteFailed(w) ==
    /\ \E i \in Calls(w, "delete_comment") : log[w][i].res # "ok"
    /\ \A i \in DOMAIN log[w] :
          log[w][i].op \in {"set_status", "list_pr_comments", "post_pr_comment"}
             => log[w][i].res = "ok"

\* C21: a delete call that fails during the reconciliation is absorbed: the
\* run attempts the remaining deletions, sets its final status, posts its
\* comment when it has findings and returns the 200 summary.
C21_DeleteFailureAbsorbed ==
    \A w \in Workers :
        (pc[w] = "done" /\ OnlyDeleteFailed(w)) =>
            /\ todo[w] = <<>>
            /\ Summary(w)
            /\ Cardinality(StatusCalls(w, {"success", "failure"})) = 1
            /\ errors[w] # <<>> => Cardinality(Calls(w, "post_pr_comment")) = 1

\* The run of w listed the comments, and its list and delete calls were all
\* answered with success.
ListDeleteOk(w) ==
    /\ Calls(w, "list_pr_comments") # {}
    /\ \A i \in Calls(w, "list_pr_comments") \cup Calls(w, "delete_comment") :
          log[w][i].res = "ok"

C23_PostAfterReconcile ==
    \A w \in Workers :
        /\ Cardinality(Calls(w, "post_pr_comment")) <= 1
        /\ (pc[w] = "post" \/ Calls(w, "post_pr_comment") # {}) =>
              /\ errors[w] # <<>>
              /\ todo[w] = <<>>
              /\ \E l \in Calls(w, "list_pr_comments") : log[w][l].res = "ok"
        /\ \A p \in Calls(w, "post_pr_comment") :
              \A i \in Calls(w, "list_pr_comments") \cup Calls(w, "delete_comment") :
                 i < p

C23_Witness ==
    \E w \in Workers :
        /\ Cardinality(Calls(w, "post_pr_comment")) = 1
        /\ Cardinality(Calls(w, "delete_comment")) = MaxInitialMarked
        /\ runs = 1
        /\ errors[w] # <<>>
        /\ todo[w] = <<>>

\* The comments of the PR that do not carry the marker.
Unmarked == {c \in comments : ~HasMarker(c.body)}

\* C25: no run deletes a comment whose body does not contain the marker:
\* whatever runs have happened, one after another or interleaved, the
\* comments without the marker are the ones the PR started with.
C25_UnmarkedKept ==
    Unmarked = {c \in InitialComments(0) : ~HasMarker(c.body)}

C25_Witness ==
    /\ \A w \in Workers : pc[w] = "done" /\ Calls(w, "delete_comment") # {}
    /\ Unmarked = {[id |-> 1, body |-> HumanBody]}

\* C26: a delivery that fails during clone or analysis makes no list, delete
\* or create call and no step of it changes the comments of the PR, so a bot
\* comment of an earlier review is still there when it has ended.
C26_FailedReviewKeepsComments ==
    /\ [](\A w \in Workers :
            raised[w] => \A i \in DOMAIN log[w] : log[w][i].op \notin CommentOps)
    /\ [][\A w \in Workers :
            (raised[w] \/ raised'[w]) => comments' = comments]_vars

C26_Witness ==
    \E w \in Workers :
        /\ pc[w] = "done" /\ raised[w] /\ StepFailed(w)
        /\ resp[w] = "500"
        /\ runs = 2
        /\ \E c \in Marked : c.body # OldBotBody

\* The finding list holds a TEST finding for tests/ at 1:1.
HasTestFinding(findings) ==
    \E i \in DOMAIN findings :
        /\ findings[i].code = "TEST"
        /\ findings[i].file = TESTS_DIR
        /\ findings[i].line = 1
        /\ findings[i].column = 1

\* C24: a non-zero exit of the test runner gives at least one TEST finding
\* for tests/ at 1:1 and a result that is not success, in the webhook
\* analysis and in the local script, with or without a FAILED line in the
\* output of the test runner.
C24_TestFailureIsFinding ==
    (/\ script.step = "done"
     /\ script.files # <<>>
     /\ script.in.pytest.rc # 0) =>
        /\ HasTestFinding(run_pytest(script.in.pytest.rc).errors)
        /\ ~run_all(Tools(TRUE, script.in.diff, script.in.ruff,
                          script.in.format_rc, script.in.pytest.rc)).success
        /\ HasTestFinding(script.out.errors)
        /\ ~script.out.result

\* C27: when no line of the diff of the last commit names an existing Python
\* file, run_checks returns True with no error and starts neither the
\* linter, nor the formatter, nor the test runner.
C27_NothingChangedPasses ==
    (/\ script.step = "done"
     /\ \A i \in DOMAIN script.in.diff :
           ~(IsPy(script.in.diff[i]) /\ script.in.diff[i] \in script.in.existing)) =>
        /\ ~script.out.raised
        /\ script.out.result
        /\ script.out.errors = <<>>
        /\ \A i \in DOMAIN script.out.ran :
              script.out.ran[i] \notin {"ruff check", "ruff format", "pytest"}

C27_Witness ==
    /\ script.step = "done"
    /\ script.in.diff = <<A_PY, B_TXT>>
    /\ script.in.existing = {}
    /\ script.in.pytest.rc # 0
    /\ script.out.result
    /\ script.out.errors = <<>>

====
